---- MODULE Spec2Model ----
(***************************************************************************)
(* Model of musium's thumbnail generation (src/src/thumb_gen.rs):          *)
(* the planner loop of generate_thumbnails, the GenThumb state machine     *)
(* (start_resize, start_compress, advance), the GenThumbs queue (pop, put) *)
(* and the worker threads that drain it under one Mutex; and of the        *)
(* playlist shuffle (src/src/shuffle.rs) and of the playback history       *)
(* logger (src/src/history.rs).                                            *)
(***************************************************************************)
EXTENDS Integers, Sequences, FiniteSets, TLC

\* ------------------------------------------------------------------ bounds

\* Album ids range over 0..MaxAlbumId (AlbumId is an unsigned integer).
MaxAlbumId == 2
\* Longest track list of the index in runs of the whole program.
MaxTracks == 2
\* Longest track list of the index in runs of the planner alone.
PlanMaxTracks == 4
\* Largest value num_cpus::get() returns.
MaxCpus == 2

\* Bytes the pipe that is guetzli's stdout holds while nobody reads from it.
PipeCap == 2
\* Largest number of bytes guetzli writes to its stdout.
MaxOutput == 3

\* Every byte of a track of the test shuffler ranges over 0..MaxByte.
MaxByte == 1
\* Longest slice of tracks handed to shuffle.
MaxShuffleLen == 3

\* Longest sequence of events the history logger receives.
MaxEvents == 3
\* Queue ids and track ids of the events range over 1..MaxQueueId, 1..MaxTrackId.
MaxQueueId == 2
MaxTrackId == 2
\* Most rows the table of listens holds when the logger starts.
MaxOldListens == 1

\* The planner publishes the status every 32 pending tasks.
SendEvery == 32

AlbumIds == 0..MaxAlbumId

\* ------------------------------------------------------------------ state

VARIABLES
    tracks,         \* index.get_tracks(): the album id of every track, in order
    thumbnails,     \* albums for which the database holds a thumbnail
    num_cpus,       \* num_cpus::get()
    panic_mode,     \* build profile, known from the first panic on: "abort" or "unwind"
    observer,       \* the Receiver end of status_sender, known from a failed send on
    mainPc,         \* position of the thread running generate_thumbnails
    track_i,        \* loop index of `for ... in index.get_tracks()`
    prev_album_id,  \* local prev_album_id
    pending_tasks,  \* local pending_tasks
    status,         \* *status: stage, files_to_process_thumbnails, files_processed_thumbnails
    sent,           \* every Status value passed to status_sender.send, in order
    tasks,          \* GenThumbs::tasks, inside the Mutex
    mutex,          \* holder of the MutexGuard: 0 (free) or a worker
    poisoned,       \* the Mutex is poisoned
    wpc,            \* position of every drain thread
    held,           \* the task a drain thread owns (`task`), or NoTask
    result,         \* `result` of a drain thread: Some(task) or NoTask for None
    convert,        \* per album: the `convert` child process
    guetzli,        \* per album: the `guetzli` child process ("blocked": in a write to a full pipe)
    file,           \* per album: get_tmp_fname(album_id) exists on disk
    outcome,        \* per album: how its task ended
    advances,       \* per album: number of GenThumb::advance calls made on its task
    pushed_by,      \* per entry of tasks: the drain thread that pushed it (0: the planner)
    took,           \* per drain thread: the album it popped last and who had pushed it
    checked,        \* albums for which select_thumbnail_exists was asked
    early_exit,     \* a drain thread saw an empty queue while another one held a task
    first_plan      \* the pending tasks of an earlier call of generate_thumbnails, if any

\* shuffle (src/src/shuffle.rs)
VARIABLES
    sh_pc,          \* position of the thread running shuffle, "idle" when it is not called
    sh_tracks,      \* the slice `tracks`
    sh_albums,      \* local `albums`: album id -> Vec<TrackRef>
    sh_artists,     \* local `artists`: artist id -> Vec<Vec<TrackRef>>
    sh_partitions,  \* local `artist_partitions`
    sh_result       \* local `result`

\* history::main (src/src/history.rs)
VARIABLES
    h_pc,           \* position of the thread running history::main, "idle" when it is not called
    h_events,       \* the events still to arrive on the channel `events`
    last_listen_id, \* local last_listen_id, NoListen for None
    h_listens,      \* the rows of the table of listens
    h_received      \* the events taken from the channel so far

vars == << tracks, thumbnails, num_cpus, panic_mode, observer, mainPc, track_i,
           prev_album_id, pending_tasks, status, sent, tasks, mutex, poisoned,
           wpc, held, result, convert, guetzli, file, outcome, advances,
           pushed_by, took, checked, early_exit, first_plan,
           sh_pc, sh_tracks, sh_albums, sh_artists, sh_partitions, sh_result,
           h_pc, h_events, last_listen_id, h_listens, h_received >>

historyVars == << h_pc, h_events, last_listen_id, h_listens, h_received >>
shuffleVars == << sh_pc, sh_tracks, sh_albums, sh_artists, sh_partitions, sh_result >>

planVars == << track_i, prev_album_id, pending_tasks >>
procVars == << convert, guetzli, file >>
inputVars == << tracks, thumbnails, num_cpus >>
workerVars == << wpc, held, result, mutex, poisoned, tasks >>
ghostVars == << outcome, advances, pushed_by, took, checked, early_exit, first_plan >>

Workers == 1..num_cpus

\* ------------------------------------------------------------------ data

NoPath == -1
NoTask == [album_id |-> -1, state |-> "None", flac_filename |-> 0,
           child |-> "none", path |-> NoPath]

\* get_tmp_fname: the path is the temp dir joined with "musium-thumb-<id>.png";
\* distinct album ids give distinct paths, so the path is named by the id.
get_tmp_fname(album_id) == album_id

\* GenThumbState::Pending { flac_filename }
PendingTask(album_id, flac_filename) ==
    [album_id |-> album_id, state |-> "Pending", flac_filename |-> flac_filename,
     child |-> "none", path |-> NoPath]

\* GenThumbState::Resizing { child, out_path }
ResizingTask(t, out_path) ==
    [album_id |-> t.album_id, state |-> "Resizing", flac_filename |-> 0,
     child |-> "convert", path |-> out_path]

\* GenThumbState::Compressing { child, in_path }
CompressingTask(t) ==
    [album_id |-> t.album_id, state |-> "Compressing", flac_filename |-> 0,
     child |-> "guetzli", path |-> t.path]

\* Track lists in which the tracks of one album are contiguous.
Contiguous(s) ==
    \A i \in 1..Len(s) : \A j \in i..Len(s) :
        s[i] = s[j] => \A k \in i..j : s[k] = s[i]

TrackLists(max) ==
    { s \in UNION { [1..n -> AlbumIds] : n \in 0..max } : Contiguous(s) }

Range(seq) == { seq[i] : i \in 1..Len(seq) }

NoTook == [album_id |-> -1, pushed_by |-> 0]
NoPlan == [ran |-> FALSE, tasks |-> << >>]

\* index.get_filename(track.filename): every track has its own file, named
\* here by the track's position in the index.
get_filename(i) == i

InitWith(track_lists) ==
    /\ tracks \in track_lists
    /\ thumbnails \in SUBSET { tracks[i] : i \in 1..Len(tracks) }
    /\ num_cpus \in 1..MaxCpus
    /\ panic_mode = "unknown"
    /\ observer = "alive"
    /\ mainPc = "begin"
    /\ track_i = 1
    /\ prev_album_id = 0
    /\ pending_tasks = << >>
    /\ status = [stage |-> "Idle", files_to_process |-> 0, files_processed |-> 0]
    /\ sent = << >>
    /\ tasks = << >>
    /\ mutex = 0
    /\ poisoned = FALSE
    /\ wpc = [w \in 1..MaxCpus |-> "unspawned"]
    /\ held = [w \in 1..MaxCpus |-> NoTask]
    /\ result = [w \in 1..MaxCpus |-> NoTask]
    /\ convert = [a \in AlbumIds |-> "none"]
    /\ guetzli = [a \in AlbumIds |-> "none"]
    /\ file = [a \in AlbumIds |-> FALSE]
    /\ outcome = [a \in AlbumIds |-> "none"]
    /\ advances = [a \in AlbumIds |-> 0]
    /\ pushed_by = << >>
    /\ took = [w \in 1..MaxCpus |-> NoTook]
    /\ checked = {}
    /\ early_exit = FALSE
    /\ first_plan = NoPlan

QueueIds == 1..MaxQueueId
TrackIds == 1..MaxTrackId

\* PlaybackEvent::Started(QueueId, TrackId) and PlaybackEvent::Completed(QueueId, TrackId)
PlaybackEvents == [kind : {"Started", "Completed"}, queue_id : QueueIds, track_id : TrackIds]

\* `None` of last_listen_id; the ids of rows start at 1.
NoListen == 0

\* The completion of a row that no update_listen_completed was addressed to.
NotCompleted == [queue_id |-> 0, track_id |-> 0]

\* Rows that earlier sessions left in the table.
OldListens(n) ==
    [i \in 1..n |-> [id |-> i, queue_id |-> 1, track_id |-> 1, completed |-> NotCompleted]]

\* db.insert_listen_started(listen): one more row, and the id it returns.
NewListenId(rows) == Len(rows) + 1
insert_listen_started(rows, queue_id, track_id) ==
    Append(rows, [id |-> NewListenId(rows), queue_id |-> queue_id, track_id |-> track_id,
                  completed |-> NotCompleted])

\* db.update_listen_completed(listen_id, now, queue_id, track_id): the
\* statement is addressed to the row with this id.
update_listen_completed(rows, listen_id, queue_id, track_id) ==
    [i \in 1..Len(rows) |->
        IF rows[i].id = listen_id
        THEN [rows[i] EXCEPT !.completed = [queue_id |-> queue_id, track_id |-> track_id]]
        ELSE rows[i]]

\* The Started arm as it would be if it kept the id of the first listen.
AfterStartedKeepsFirst(last, id) == IF last = NoListen THEN id ELSE last

\* last_listen_id = Some(result.expect(..))
AfterStarted(last, id) == id

\* history::main is not running.
HistoryIdle ==
    /\ h_pc = "idle"
    /\ h_events = << >>
    /\ last_listen_id = NoListen
    /\ h_listens = << >>
    /\ h_received = << >>

\* history::main is called: the events that will arrive on the channel, and
\* the table as earlier sessions left it.
HistoryCalled ==
    /\ h_pc = "open"
    /\ h_events \in UNION { [1..n -> PlaybackEvents] : n \in 0..MaxEvents }
    /\ last_listen_id = NoListen
    /\ h_listens \in { OldListens(n) : n \in 0..MaxOldListens }
    /\ h_received = << >>

\* shuffle is not running.
ShuffleIdle ==
    /\ sh_pc = "idle"
    /\ sh_tracks = << >>
    /\ sh_albums = << >>
    /\ sh_artists = << >>
    /\ sh_partitions = << >>
    /\ sh_result = << >>

Init == InitWith(TrackLists(MaxTracks)) /\ ShuffleIdle /\ HistoryIdle

\* ------------------------------------------------------------------ planner

\* GenThumb::new as it would be without the lookup in the database.
GenThumbNewUnconditional(album_id, flac_filename) ==
    PendingTask(album_id, flac_filename)

\* GenThumb::new as it would be if it skipped the albums whose thumbnail an
\* earlier call has generated.
GenThumbNewUnlessDone(album_id, flac_filename) ==
    IF album_id \in thumbnails \/ outcome[album_id] = "Done" THEN NoTask
    ELSE PendingTask(album_id, flac_filename)

\* GenThumb::new: Some(task in Pending state) when select_thumbnail_exists
\* returns 0, None otherwise.
GenThumbNew(album_id, flac_filename) ==
    IF album_id \in thumbnails THEN NoTask
    ELSE PendingTask(album_id, flac_filename)

\* status_sender.send(..): Ok while the receiver exists; once the receiver is
\* dropped every send fails.
SendResults == IF observer = "alive" THEN BOOLEAN ELSE {FALSE}

\* The test `track.album_id != prev_album_id` of the planner loop.
StartsNewAlbum(album_id, prev) == album_id /= prev

\* status.stage = PreProcessingThumbnails; send; db.begin()?
Begin ==
    /\ mainPc = "begin"
    /\ status' = [status EXCEPT !.stage = "PreProcessingThumbnails"]
    /\ \E send_ok \in SendResults :
         IF send_ok
         THEN /\ sent' = Append(sent, status')
              /\ \E db_ok \in BOOLEAN : mainPc' = IF db_ok THEN "plan" ELSE "failed"
              /\ UNCHANGED observer
         ELSE /\ sent' = sent
              /\ mainPc' = "panicked"
              /\ observer' = "dropped"
    /\ UNCHANGED << historyVars, shuffleVars, inputVars, panic_mode, planVars, workerVars, procVars, ghostVars >>

\* One iteration of `for &(_tid, ref track) in index.get_tracks()`.
PlanStep ==
    /\ mainPc = "plan"
    /\ track_i <= Len(tracks)
    /\ LET album_id == tracks[track_i]
           task == GenThumbNew(album_id, get_filename(track_i))
       IN  IF StartsNewAlbum(album_id, prev_album_id)
           THEN \E db_ok \in BOOLEAN :
                  IF ~db_ok
                  THEN \* select_thumbnail_exists(...)? returns the error
                       /\ mainPc' = "failed"
                       /\ UNCHANGED << planVars, status, sent, observer >>
                  ELSE IF task = NoTask
                  THEN /\ prev_album_id' = album_id
                       /\ track_i' = track_i + 1
                       /\ UNCHANGED << mainPc, pending_tasks, status, sent, observer >>
                  ELSE /\ pending_tasks' = Append(pending_tasks, task)
                       /\ status' = [status EXCEPT !.files_to_process = @ + 1]
                       /\ prev_album_id' = album_id
                       /\ track_i' = track_i + 1
                       /\ IF Len(pending_tasks') % SendEvery = 0
                          THEN \E send_ok \in SendResults :
                                 IF send_ok
                                 THEN /\ sent' = Append(sent, status')
                                      /\ UNCHANGED << mainPc, observer >>
                                 ELSE /\ sent' = sent
                                      /\ mainPc' = "panicked"
                                      /\ observer' = "dropped"
                          ELSE UNCHANGED << sent, mainPc, observer >>
           ELSE /\ track_i' = track_i + 1
                /\ UNCHANGED << mainPc, prev_album_id, pending_tasks, status, sent,
                                observer >>
    /\ checked' = IF StartsNewAlbum(tracks[track_i], prev_album_id) /\ mainPc' /= "failed"
                  THEN checked \cup {tracks[track_i]} ELSE checked
    /\ UNCHANGED << historyVars, shuffleVars, inputVars, panic_mode, workerVars, procVars, outcome, advances,
                    pushed_by, took, early_exit, first_plan >>

\* tx.commit()?; status.stage = GeneratingThumbnails; send; build the queue.
Commit ==
    /\ mainPc = "plan"
    /\ track_i > Len(tracks)
    /\ \E db_ok \in BOOLEAN :
         IF ~db_ok
         THEN /\ mainPc' = "failed"
              /\ UNCHANGED << status, sent, tasks, observer >>
         ELSE /\ status' = [status EXCEPT !.stage = "GeneratingThumbnails"]
              /\ \E send_ok \in SendResults :
                   IF send_ok
                   THEN /\ sent' = Append(sent, status')
                        /\ tasks' = pending_tasks
                        /\ mainPc' = "spawn"
                        /\ UNCHANGED observer
                   ELSE /\ sent' = sent
                        /\ tasks' = tasks
                        /\ mainPc' = "panicked"
                        /\ observer' = "dropped"
    /\ pushed_by' = [i \in 1..Len(tasks') |-> 0]
    /\ UNCHANGED << historyVars, shuffleVars, inputVars, panic_mode, planVars, wpc, held, result, mutex,
                    poisoned, procVars, outcome, advances, took, checked, early_exit,
                    first_plan >>

\* crossbeam::scope: spawn one drain thread per cpu.
Spawn ==
    /\ mainPc = "spawn"
    /\ wpc' = [w \in 1..MaxCpus |-> IF w \in Workers THEN "lock_pop" ELSE "unspawned"]
    /\ mainPc' = "scope"
    /\ UNCHANGED << historyVars, shuffleVars, inputVars, panic_mode, observer, planVars, status, sent, tasks, mutex,
                    poisoned, held, result, procVars, ghostVars >>

\* End of crossbeam::scope: all threads are joined; a panic of a thread is
\* raised again in the caller, otherwise generate_thumbnails returns Ok(()).
Join ==
    /\ mainPc = "scope"
    /\ \A w \in Workers : wpc[w] \in {"exited", "panicked"}
    /\ mainPc' = IF \E w \in Workers : wpc[w] = "panicked" THEN "panicked" ELSE "returned"
    /\ UNCHANGED << historyVars, shuffleVars, inputVars, panic_mode, observer, planVars, status, sent, workerVars,
                    procVars, ghostVars >>

\* ------------------------------------------------------------------ GenThumb

\* What one run of start_resize meets: the flac file cannot be parsed, holds no
\* picture, `convert` cannot be spawned, the write to its stdin fails, or all is well.
ResizeInputs == {"ok", "nocover", "openfail", "spawnfail", "writefail"}
\* start_compress: convert.wait() fails, `guetzli` cannot be spawned, or all is well.
CompressInputs == {"ok", "waitfail", "spawnfail"}
\* The Compressing arm of advance: child.wait() fails, read_to_end fails, or all is well.
FinishInputs == {"ok", "waitfail", "readfail"}

Some(t) == [kind |-> "Some", task |-> t, final |-> "none"]
None(final) == [kind |-> "None", task |-> NoTask, final |-> final]
Err == [kind |-> "Err", task |-> NoTask, final |-> "Error"]
Unwrapped == [kind |-> "Panic", task |-> NoTask, final |-> "Panicked"]

\* start_resize as it would be if it built the Compressing state at once.
start_resize_skipping(t, r) ==
    CASE r = "openfail" -> Err
      [] r = "nocover" -> None("Skipped")
      [] r = "spawnfail" -> Err
      [] r = "writefail" -> Unwrapped
      [] OTHER -> Some(CompressingTask(ResizingTask(t, get_tmp_fname(t.album_id))))

\* GenThumb::start_resize.
start_resize(t, r) ==
    CASE r = "openfail" -> Err
      [] r = "nocover" -> None("Skipped")
      [] r = "spawnfail" -> Err
      [] r = "writefail" -> Unwrapped
      [] OTHER -> Some(ResizingTask(t, get_tmp_fname(t.album_id)))

\* GenThumb::start_compress, reached when convert.wait() has returned; the
\* exit status that wait() returns is not looked at.
start_compress(t, r) ==
    CASE r = "waitfail" -> Err
      [] r = "spawnfail" -> Err
      [] OTHER -> Some(CompressingTask(t))

\* The Compressing arm as it would be if it handed the task back once more.
finish_compress_again(t, r, file_exists) ==
    CASE r = "waitfail" -> Err
      [] ~file_exists -> Err
      [] r = "readfail" -> Err
      [] OTHER -> Some(t)

\* The Compressing arm of GenThumb::advance; std::fs::remove_file fails when
\* the intermediate file does not exist.
finish_compress(t, r, file_exists) ==
    CASE r = "waitfail" -> Err
      [] ~file_exists -> Err
      [] r = "readfail" -> Err
      [] OTHER -> None("Done")

\* GenThumb::advance: one arm per state.
advance(t, r, file_exists) ==
    CASE t.state = "Pending" -> start_resize(t, r)
      [] t.state = "Resizing" -> start_compress(t, r)
      [] OTHER -> finish_compress(t, r, file_exists)

AdvanceInputs(t) ==
    CASE t.state = "Pending" -> ResizeInputs
      [] t.state = "Resizing" -> CompressInputs
      [] OTHER -> FinishInputs

\* Child::wait blocks until the process has exited; called again on a child
\* that was waited for, it returns the same status at once.
Exited(p) == p \in {"exit_ok", "exit_fail", "reaped_ok", "reaped_fail"}
Reaped(p) == IF p \in {"exit_ok", "reaped_ok"} THEN "reaped_ok" ELSE "reaped_fail"

CanAdvance(t, r) ==
    CASE t.state = "Pending" -> TRUE
      [] t.state = "Resizing" -> r = "waitfail" \/ Exited(convert[t.album_id])
      [] OTHER -> r = "waitfail" \/ Exited(guetzli[t.album_id])

\* What a call of advance does to the child processes and the intermediate file.
AdvanceEffects(t, r) ==
    LET a == t.album_id IN
    CASE t.state = "Pending" ->
           /\ convert' = IF r \in {"ok", "writefail"}
                         THEN [convert EXCEPT ![a] = "running"] ELSE convert
           /\ UNCHANGED << guetzli, file >>
      [] t.state = "Resizing" ->
           /\ convert' = IF r = "waitfail" THEN convert
                         ELSE [convert EXCEPT ![a] = Reaped(@)]
           /\ guetzli' = IF r = "ok" THEN [guetzli EXCEPT ![a] = "running"] ELSE guetzli
           /\ UNCHANGED file
      [] OTHER ->
           /\ guetzli' = IF r = "waitfail" THEN guetzli
                         ELSE [guetzli EXCEPT ![a] = Reaped(@)]
           /\ file' = IF r = "waitfail" THEN file ELSE [file EXCEPT ![t.path] = FALSE]
           /\ UNCHANGED convert

\* ------------------------------------------------------------------ GenThumbs

\* GenThumbs::pop: Vec::pop takes the last element.
PopTask(ts) == IF ts = << >> THEN NoTask ELSE ts[Len(ts)]
\* pop as it would be if it read the last element and left it in the vector.
PopRestPeek(ts) == ts
PopRest(ts) == IF ts = << >> THEN ts ELSE SubSeq(ts, 1, Len(ts) - 1)

\* put as it would be if it inserted the task at the bottom of the vector.
PutTasksBottom(ts, res) == IF res = NoTask THEN ts ELSE << res >> \o ts

\* put as it would be if it forgot to push the task back.
PutTasksForget(ts, res) == ts

\* GenThumbs::put, the queue: Some(next_task) is pushed.
PutTasks(ts, res) == IF res = NoTask THEN ts ELSE Append(ts, res)

\* put as it would be if it raised files_to_process along with files_processed.
PutStatusRaisesTotal(st, res) ==
    IF res = NoTask
    THEN [st EXCEPT !.files_processed = @ + 1, !.files_to_process = @ + 1]
    ELSE st

\* put as it would be if it did not count.
PutStatusNever(st, res) == st

\* put as it would be if it counted every call.
PutStatusEveryCall(st, res) == [st EXCEPT !.files_processed = @ + 1]

\* GenThumbs::put, the status: None counts one more processed file.
PutStatus(st, res) ==
    IF res = NoTask THEN [st EXCEPT !.files_processed = @ + 1] ELSE st

\* put as it would be if it sent the copy of the status taken before the increment.
PutSnapshotStale(before, after) == before

\* GenThumbs::put, the value sent: *self.status, read after the increment.
PutSnapshot(before, after) == after

\* ------------------------------------------------------------------ drain threads

Alive == mainPc = "scope"

\* A panic of drain thread w: the thread ends, and with panic=abort so does the process.
PanicOf(w) ==
    /\ wpc' = [wpc EXCEPT ![w] = "panicked"]
    /\ panic_mode' \in (IF panic_mode = "unknown" THEN {"abort", "unwind"} ELSE {panic_mode})
    /\ mainPc' = IF panic_mode' = "abort" THEN "aborted" ELSE mainPc

\* mutex_ref.lock().unwrap() before tasks.pop()
LockForPop(w) ==
    /\ Alive
    /\ wpc[w] = "lock_pop"
    /\ mutex = 0
    /\ IF poisoned
       THEN PanicOf(w) /\ UNCHANGED mutex
       ELSE /\ mutex' = w
            /\ wpc' = [wpc EXCEPT ![w] = "pop"]
            /\ UNCHANGED << mainPc, panic_mode >>
    /\ UNCHANGED << historyVars, shuffleVars, inputVars, observer, planVars, status, sent, tasks, poisoned,
                    held, result, procVars, ghostVars >>

\* The block around the pop as it would be without its braces: the guard
\* lives on through the body of the loop.
PopBlockEndKeepsGuard(w) == w

\* The holder of the mutex when the block `{ let mut tasks = lock; tasks.pop() }`
\* ends: the guard `tasks` is dropped there.
PopBlockEnd(w) == 0

\* The loop as it would be if a thread that finds the queue empty tried again.
AfterPopRetry(t) == IF t = NoTask THEN "lock_pop" ELSE "advance"

\* `while let Some(task) = ..`: where a thread goes with what pop returned;
\* on None it leaves the loop and ends.
AfterPop(t) == IF t = NoTask THEN "exited" ELSE "advance"

\* tasks.pop(), and the guard is dropped at the end of the block.
Pop(w) ==
    /\ Alive
    /\ wpc[w] = "pop"
    /\ mutex = w
    /\ held' = [held EXCEPT ![w] = PopTask(tasks)]
    /\ tasks' = PopRest(tasks)
    /\ wpc' = [wpc EXCEPT ![w] = AfterPop(PopTask(tasks))]
    /\ mutex' = PopBlockEnd(w)
    /\ early_exit' = (early_exit \/ (PopTask(tasks) = NoTask /\
                          \E v \in Workers : wpc[v] \in {"advance", "lock_put", "put"}))
    /\ took' = [took EXCEPT ![w] =
                   IF PopTask(tasks) = NoTask THEN NoTook
                   ELSE [album_id |-> PopTask(tasks).album_id,
                         pushed_by |-> pushed_by[Len(pushed_by)]]]
    /\ pushed_by' = SubSeq(pushed_by, 1, Len(tasks'))
    /\ UNCHANGED << historyVars, shuffleVars, inputVars, panic_mode, observer, mainPc, planVars, status, sent, poisoned,
                    result, procVars, outcome, advances, checked, first_plan >>

\* task.advance().expect("Thumbnail generation failed.")
Advance(w) ==
    /\ Alive
    /\ wpc[w] = "advance"
    /\ LET t == held[w] IN
       \E r \in AdvanceInputs(t) :
          /\ CanAdvance(t, r)
          /\ LET res == advance(t, r, file[t.album_id]) IN
             /\ AdvanceEffects(t, r)
             /\ held' = [held EXCEPT ![w] = NoTask]
             /\ advances' = [advances EXCEPT ![t.album_id] = @ + 1]
             /\ took' = IF res.kind \in {"Err", "Panic"}
                        THEN [took EXCEPT ![w] = NoTook] ELSE took
             /\ outcome' = [outcome EXCEPT ![t.album_id] =
                               IF res.kind = "Some" THEN @ ELSE res.final]
             /\ IF res.kind \in {"Err", "Panic"}
                THEN PanicOf(w) /\ UNCHANGED result
                ELSE /\ result' = [result EXCEPT ![w] = res.task]
                     /\ wpc' = [wpc EXCEPT ![w] = "lock_put"]
                     /\ UNCHANGED << mainPc, panic_mode >>
    /\ UNCHANGED << historyVars, shuffleVars, inputVars, observer, planVars, status, sent, tasks, mutex, poisoned,
                    pushed_by, checked, early_exit, first_plan >>

\* mutex_ref.lock().unwrap() before put(result)
LockForPut(w) ==
    /\ Alive
    /\ wpc[w] = "lock_put"
    /\ mutex = 0
    /\ IF poisoned
       THEN PanicOf(w) /\ UNCHANGED mutex
       ELSE /\ mutex' = w
            /\ wpc' = [wpc EXCEPT ![w] = "put"]
            /\ UNCHANGED << mainPc, panic_mode >>
    /\ UNCHANGED << historyVars, shuffleVars, inputVars, observer, planVars, status, sent, tasks, poisoned,
                    held, result, procVars, ghostVars >>

\* put(result), and the guard is dropped; a failed send panics with the guard
\* held, which poisons the mutex.
Put(w) ==
    /\ Alive
    /\ wpc[w] = "put"
    /\ mutex = w
    /\ tasks' = PutTasks(tasks, result[w])
    /\ status' = PutStatus(status, result[w])
    /\ result' = [result EXCEPT ![w] = NoTask]
    /\ mutex' = 0
    /\ IF result[w] = NoTask
       THEN \E send_ok \in SendResults :
              IF send_ok
              THEN /\ sent' = Append(sent, PutSnapshot(status, status'))
                   /\ wpc' = [wpc EXCEPT ![w] = "lock_pop"]
                   /\ UNCHANGED << mainPc, panic_mode, poisoned, observer >>
              ELSE /\ PanicOf(w)
                   /\ poisoned' = TRUE
                   /\ observer' = "dropped"
                   /\ UNCHANGED sent
       ELSE /\ wpc' = [wpc EXCEPT ![w] = "lock_pop"]
            /\ UNCHANGED << sent, mainPc, panic_mode, poisoned, observer >>
    /\ pushed_by' = IF Len(tasks') > Len(tasks) THEN Append(pushed_by, w)
                    ELSE SubSeq(pushed_by, 1, Len(tasks'))
    /\ took' = [took EXCEPT ![w] = NoTook]
    /\ UNCHANGED << historyVars, shuffleVars, inputVars, planVars, held, procVars, outcome, advances, checked,
                    early_exit, first_plan >>

\* ------------------------------------------------------------------ environment

\* The `convert` process of album a exits; on success the intermediate file
\* has been written, on failure it may or may not have been.
ConvertExit(a) ==
    /\ convert[a] = "running"
    /\ \E ok \in BOOLEAN, wrote \in BOOLEAN :
         /\ convert' = [convert EXCEPT ![a] = IF ok THEN "exit_ok" ELSE "exit_fail"]
         /\ file' = [file EXCEPT ![get_tmp_fname(a)] = IF ok \/ wrote THEN TRUE ELSE @]
    /\ UNCHANGED << historyVars, shuffleVars, inputVars, panic_mode, observer, mainPc, planVars, status, sent, workerVars,
                    guetzli, ghostVars >>

\* The `guetzli` process of album a writes its output to /dev/fd/1, the pipe
\* of .stdout(Stdio::piped()), and exits. Nothing reads from the pipe before
\* child.wait() has returned, so an output that does not fit into the pipe
\* leaves the process blocked in its write.
GuetzliExit(a) ==
    /\ guetzli[a] = "running"
    /\ \E size \in 0..MaxOutput, ok \in BOOLEAN :
         guetzli' = [guetzli EXCEPT ![a] = IF size > PipeCap THEN "blocked"
                                          ELSE IF ok THEN "exit_ok" ELSE "exit_fail"]
    /\ UNCHANGED << historyVars, shuffleVars, inputVars, panic_mode, observer, mainPc, planVars, status, sent, workerVars,
                    convert, file, ghostVars >>

Next ==
    \/ Begin
    \/ PlanStep
    \/ Commit
    \/ Spawn
    \/ Join
    \/ \E w \in Workers : LockForPop(w)
    \/ \E w \in Workers : Pop(w)
    \/ \E w \in Workers : Advance(w)
    \/ \E w \in Workers : LockForPut(w)
    \/ \E w \in Workers : Put(w)
    \/ \E a \in AlbumIds : ConvertExit(a)
    \/ \E a \in AlbumIds : GuetzliExit(a)

Spec == Init /\ [][Next]_vars

\* The same program with threads and processes that keep running: the thread
\* of generate_thumbnails and every drain thread take their next step when
\* they can, and a child process that runs comes to its end (or to a write
\* that blocks).
Fairness ==
    /\ WF_vars(Begin \/ PlanStep \/ Commit \/ Spawn \/ Join)
    /\ \A w \in 1..MaxCpus :
          WF_vars(LockForPop(w) \/ Pop(w) \/ Advance(w) \/ LockForPut(w) \/ Put(w))
    /\ \A a \in AlbumIds : WF_vars(ConvertExit(a) \/ GuetzliExit(a))

FairSpec == Init /\ [][Next]_vars /\ Fairness

\* The planner alone, on longer track lists: generate_thumbnails up to the
\* point where the queue is built.
PlanInit == InitWith(TrackLists(PlanMaxTracks)) /\ ShuffleIdle /\ HistoryIdle

PlanNext ==
    \/ Begin
    \/ PlanStep
    \/ Commit

PlanSpec == PlanInit /\ [][PlanNext]_vars

\* generate_thumbnails has come to its end: it returned Ok or Err, or it panicked.
Ended == mainPc \in {"returned", "failed", "panicked", "aborted"}

\* The planner loop has run to its end.
PlanningDone == mainPc /= "begin" /\ track_i > Len(tracks)

\* generate_thumbnails is called once more, after a call that got through its
\* planner loop: same index, same database, same Status and sender; the
\* locals of the function start afresh, and what the first call left behind
\* (processes, files) stays as it is.
CallAgain ==
    /\ Ended
    /\ PlanningDone
    /\ ~first_plan.ran
    /\ first_plan' = [ran |-> TRUE, tasks |-> pending_tasks]
    /\ mainPc' = "begin"
    /\ track_i' = 1
    /\ prev_album_id' = 0
    /\ pending_tasks' = << >>
    /\ tasks' = << >>
    /\ pushed_by' = << >>
    /\ mutex' = 0
    /\ poisoned' = FALSE
    /\ wpc' = [w \in 1..MaxCpus |-> "unspawned"]
    /\ held' = [w \in 1..MaxCpus |-> NoTask]
    /\ result' = [w \in 1..MaxCpus |-> NoTask]
    /\ took' = [w \in 1..MaxCpus |-> NoTook]
    /\ checked' = {}
    /\ UNCHANGED << historyVars, shuffleVars, inputVars, panic_mode, observer, status, sent, procVars, outcome,
                    advances, early_exit >>

\* A whole call of generate_thumbnails, followed by the planner of a second call.
TwiceNext ==
    \/ ~first_plan.ran /\ Next
    \/ CallAgain
    \/ first_plan.ran /\ PlanNext

TwiceSpec == Init /\ [][TwiceNext]_vars

\* ------------------------------------------------------------------ shuffle

\* TestShuffler::Track = [u8; 3]: artist, album within the artist, track.
TestTracks == (0..MaxByte) \X (0..MaxByte) \X (0..MaxByte)

\* TestShuffler::get_album_id: (track[0] << 16) | (track[1] << 8)
get_album_id(track) == track[1] * 65536 + track[2] * 256

\* TestShuffler::get_artist_id: album_id.0 >> 8
get_artist_id(album_id) == album_id \div 256

Min(a, b) == IF a < b THEN a ELSE b

\* Every order in which the elements of a set can be met (the iteration
\* order of a HashMap is not specified).
SeqOfSet(S) == { q \in [1..Cardinality(S) -> S] : Range(q) = S }

\* rng.shuffle(v): which permutation comes out depends on the seed.
Perms(v) == { [i \in 1..Len(v) |-> v[q[i]]] : q \in SeqOfSet(1..Len(v)) }

\* partitions.sort_by_key(|v| v.len()): a stable sort by ascending length.
SortByLen(parts) ==
    LET q == CHOOSE q \in SeqOfSet(1..Len(parts)) :
                 \A i \in 1..Len(parts) : \A j \in (i + 1)..Len(parts) :
                     \/ Len(parts[q[i]]) < Len(parts[q[j]])
                     \/ Len(parts[q[i]]) = Len(parts[q[j]]) /\ q[i] < q[j]
    IN  [i \in 1..Len(parts) |-> parts[q[i]]]

\* What a piece of shuffle_interleave comes to: a value, or a panic.
ShOk(v) == [panic |-> FALSE, value |-> v]
ShPanic == [panic |-> TRUE, value |-> << >>]

\* The loop `for span_len in span_lens` and what follows it: a slice out of
\* range or src_seps[0] on an empty slice panics; debug_assert_eq! panics in
\* a build with debug assertions and is skipped in one without.
RECURSIVE FillSpans(_, _, _, _, _)
FillSpans(res, src_spans, src_seps, span_lens, last_span_len) ==
    IF span_lens = << >>
    THEN IF Len(src_spans) /= last_span_len
         THEN {ShPanic, ShOk(res \o src_spans)}
         ELSE {ShOk(res \o src_spans)}
    ELSE LET span_len == Head(span_lens) IN
         IF span_len > Len(src_spans) \/ src_seps = << >>
         THEN {ShPanic}
         ELSE FillSpans(res \o SubSeq(src_spans, 1, span_len) \o << src_seps[1] >>,
                        SubSeq(src_spans, span_len + 1, Len(src_spans)),
                        Tail(src_seps), Tail(span_lens), last_span_len)

\* The body of the loop of shuffle_interleave once long and short are chosen;
\* `long.len() / n_spans` panics when n_spans is 0.
MergeSpans(long, short) ==
    LET n_spans == Min(Len(short) + 1, Len(long)) IN
    IF n_spans = 0 THEN {ShPanic}
    ELSE LET span_len == Len(long) \div n_spans
             remainder == Len(long) - span_len * n_spans
             lens == [i \in 1..n_spans |-> IF i <= remainder THEN span_len + 1 ELSE span_len]
         IN  UNION { LET pops == n_spans < Len(long)
                         last_span_len == IF pops THEN span_lens[n_spans] ELSE 0
                         rest == IF pops THEN SubSeq(span_lens, 1, n_spans - 1) ELSE span_lens
                     IN  FillSpans(<< >>, long, short, rest, last_span_len)
                     : span_lens \in Perms(lens) }

\* The match on (result.len(), partition.len()): the pairs (long, short) it
\* can yield; on a tie bool::random decides.
LongShort(res, partition) ==
    IF Len(res) < Len(partition) THEN { << res, partition >> }
    ELSE IF Len(res) > Len(partition) THEN { << partition, res >> }
    ELSE { << partition, res >>, << res, partition >> }

\* The loop `for partition in partitions` of shuffle_interleave.
RECURSIVE InterleaveLoop(_, _)
InterleaveLoop(res, partitions) ==
    IF partitions = << >> THEN {ShOk(res)}
    ELSE UNION { UNION { IF o.panic THEN {o}
                         ELSE InterleaveLoop(o.value, Tail(partitions))
                         : o \in MergeSpans(ls[1], ls[2]) }
                 : ls \in LongShort(res, Head(partitions)) }

\* shuffle_interleave: everything it can come to, over all seeds.
shuffle_interleave(partitions) ==
    UNION { InterleaveLoop(<< >>, SortByLen(shuffled)) : shuffled \in Perms(partitions) }

\* The TrackRefs (indices from 0) of the tracks of an album, in the order of the slice.
TrackRefsOf(album_id) ==
    LET refs == { i \in 1..Len(sh_tracks) : get_album_id(sh_tracks[i]) = album_id }
        q == CHOOSE q \in SeqOfSet(refs) : \A i \in 1..Len(q) : \A j \in (i + 1)..Len(q) : q[i] < q[j]
    IN  [i \in 1..Len(q) |-> q[i] - 1]

\* A call of shuffle on a slice of test tracks.
ShuffleCalled ==
    /\ sh_pc = "partition"
    /\ sh_tracks \in UNION { [1..n -> TestTracks] : n \in 0..MaxShuffleLen }
    /\ sh_albums = << >>
    /\ sh_artists = << >>
    /\ sh_partitions = << >>
    /\ sh_result = << >>

\* `for (i, track) in tracks.iter().enumerate()`: partition the tracks into albums.
ShPartition ==
    /\ sh_pc = "partition"
    /\ sh_albums' = [a \in { get_album_id(sh_tracks[i]) : i \in 1..Len(sh_tracks) }
                       |-> TrackRefsOf(a)]
    /\ sh_pc' = "shuffle_albums"
    /\ UNCHANGED << sh_tracks, sh_artists, sh_partitions, sh_result >>
    /\ UNCHANGED << historyVars, inputVars, panic_mode, observer, mainPc, planVars, status, sent,
                    workerVars, procVars, ghostVars >>

\* `for album_tracks in albums.values_mut() { rng.shuffle(album_tracks) }`
ShShuffleAlbums ==
    /\ sh_pc = "shuffle_albums"
    /\ \E shuffled \in [DOMAIN sh_albums -> UNION { Perms(sh_albums[a]) : a \in DOMAIN sh_albums }] :
         /\ \A a \in DOMAIN sh_albums : shuffled[a] \in Perms(sh_albums[a])
         /\ sh_albums' = shuffled
    /\ sh_pc' = "group"
    /\ UNCHANGED << sh_tracks, sh_artists, sh_partitions, sh_result >>
    /\ UNCHANGED << historyVars, inputVars, panic_mode, observer, mainPc, planVars, status, sent,
                    workerVars, procVars, ghostVars >>

\* `for (album_id, album_tracks) in albums`: group the albums on artist, in
\* the order in which the map yields them.
ShGroupArtists ==
    /\ sh_pc = "group"
    /\ \E order \in SeqOfSet(DOMAIN sh_albums) :
         sh_artists' =
           [x \in { get_artist_id(a) : a \in DOMAIN sh_albums } |->
              LET mine == SelectSeq(order, LAMBDA a : get_artist_id(a) = x)
              IN  [i \in 1..Len(mine) |-> sh_albums[mine[i]]]]
    /\ sh_pc' = "interleave_artists"
    /\ UNCHANGED << sh_tracks, sh_albums, sh_partitions, sh_result >>
    /\ UNCHANGED << historyVars, inputVars, panic_mode, observer, mainPc, planVars, status, sent,
                    workerVars, procVars, ghostVars >>

\* artists.into_values().map(|p| shuffle_interleave(rng, p)).collect()
ShInterleaveArtists ==
    /\ sh_pc = "interleave_artists"
    /\ \E order \in SeqOfSet(DOMAIN sh_artists) :
       \E outs \in [DOMAIN sh_artists ->
                      UNION { shuffle_interleave(sh_artists[x]) : x \in DOMAIN sh_artists }] :
         /\ \A x \in DOMAIN sh_artists : outs[x] \in shuffle_interleave(sh_artists[x])
         /\ IF \E x \in DOMAIN sh_artists : outs[x].panic
            THEN sh_pc' = "panicked" /\ UNCHANGED sh_partitions
            ELSE /\ sh_partitions' = [i \in 1..Len(order) |-> outs[order[i]].value]
                 /\ sh_pc' = "interleave_all"
    /\ UNCHANGED << sh_tracks, sh_albums, sh_artists, sh_result >>
    /\ UNCHANGED << historyVars, inputVars, panic_mode, observer, mainPc, planVars, status, sent,
                    workerVars, procVars, ghostVars >>

\* let result = shuffle_interleave(rng, artist_partitions);
ShInterleaveAll ==
    /\ sh_pc = "interleave_all"
    /\ \E out \in shuffle_interleave(sh_partitions) :
         IF out.panic
         THEN sh_pc' = "panicked" /\ UNCHANGED sh_result
         ELSE sh_result' = out.value /\ sh_pc' = "apply"
    /\ UNCHANGED << sh_tracks, sh_albums, sh_artists, sh_partitions >>
    /\ UNCHANGED << historyVars, inputVars, panic_mode, observer, mainPc, planVars, status, sent,
                    workerVars, procVars, ghostVars >>

\* todo!("Apply the permutation.")
ShApply ==
    /\ sh_pc = "apply"
    /\ sh_pc' = "panicked"
    /\ UNCHANGED << sh_tracks, sh_albums, sh_artists, sh_partitions, sh_result >>
    /\ UNCHANGED << historyVars, inputVars, panic_mode, observer, mainPc, planVars, status, sent,
                    workerVars, procVars, ghostVars >>

ShuffleInit == InitWith({ << >> }) /\ num_cpus = 1 /\ ShuffleCalled /\ HistoryIdle

ShuffleNext ==
    \/ ShPartition
    \/ ShShuffleAlbums
    \/ ShGroupArtists
    \/ ShInterleaveArtists
    \/ ShInterleaveAll
    \/ ShApply

ShuffleSpec == ShuffleInit /\ [][ShuffleNext]_vars

\* ------------------------------------------------------------------ history

\* sqlite::open, ensure_schema_exists, Database::new, each with expect(..);
\* let mut last_listen_id = None.
HistOpen ==
    /\ h_pc = "open"
    /\ \E ok \in BOOLEAN : h_pc' = IF ok THEN "loop" ELSE "panicked"
    /\ last_listen_id' = NoListen
    /\ UNCHANGED << h_events, h_listens, h_received >>
    /\ UNCHANGED << shuffleVars, inputVars, panic_mode, observer, mainPc, planVars, status,
                    sent, workerVars, procVars, ghostVars >>

\* PlaybackEvent::Started: the lookups in the index are unwrapped, the insert
\* is expected to succeed.
HistStarted ==
    /\ h_pc = "loop"
    /\ h_events /= << >>
    /\ Head(h_events).kind = "Started"
    /\ LET event == Head(h_events) IN
       \E lookup_ok \in BOOLEAN, db_ok \in BOOLEAN :
          IF lookup_ok /\ db_ok
          THEN /\ h_listens' = insert_listen_started(h_listens, event.queue_id, event.track_id)
               /\ last_listen_id' = AfterStarted(last_listen_id, NewListenId(h_listens))
               /\ h_pc' = "loop"
          ELSE /\ h_pc' = "panicked"
               /\ UNCHANGED << h_listens, last_listen_id >>
    /\ h_events' = Tail(h_events)
    /\ h_received' = Append(h_received, Head(h_events))
    /\ UNCHANGED << shuffleVars, inputVars, panic_mode, observer, mainPc, planVars, status,
                    sent, workerVars, procVars, ghostVars >>

\* PlaybackEvent::Completed: update the listen of last_listen_id, or panic
\* when there is none.
HistCompleted ==
    /\ h_pc = "loop"
    /\ h_events /= << >>
    /\ Head(h_events).kind = "Completed"
    /\ LET event == Head(h_events) IN
       IF last_listen_id /= NoListen
       THEN \E db_ok \in BOOLEAN :
              IF db_ok
              THEN /\ h_listens' = update_listen_completed(h_listens, last_listen_id,
                                                            event.queue_id, event.track_id)
                   /\ h_pc' = "loop"
              ELSE /\ h_pc' = "panicked"
                   /\ UNCHANGED h_listens
       ELSE /\ h_pc' = "panicked"
            /\ UNCHANGED h_listens
    /\ h_events' = Tail(h_events)
    /\ h_received' = Append(h_received, Head(h_events))
    /\ UNCHANGED last_listen_id
    /\ UNCHANGED << shuffleVars, inputVars, panic_mode, observer, mainPc, planVars, status,
                    sent, workerVars, procVars, ghostVars >>

\* `for event in events` ends when the channel is closed and drained.
HistClosed ==
    /\ h_pc = "loop"
    /\ h_events = << >>
    /\ h_pc' = "returned"
    /\ UNCHANGED << h_events, last_listen_id, h_listens, h_received >>
    /\ UNCHANGED << shuffleVars, inputVars, panic_mode, observer, mainPc, planVars, status,
                    sent, workerVars, procVars, ghostVars >>

HistoryInit == InitWith({ << >> }) /\ num_cpus = 1 /\ ShuffleIdle /\ HistoryCalled

HistoryNext ==
    \/ HistOpen
    \/ HistStarted
    \/ HistCompleted
    \/ HistClosed

HistorySpec == HistoryInit /\ [][HistoryNext]_vars

\* ------------------------------------------------------------------ properties

\* Albums of the index, and the position of the first track of an album.
AlbumsOf(ts) == Range(ts)
FirstTrack(a) == CHOOSE i \in 1..Len(tracks) :
                    tracks[i] = a /\ \A j \in 1..(i - 1) : tracks[j] /= a

\* Albums for which the planner emitted a task.
Planned == { t.album_id : t \in Range(pending_tasks) }

\* In how many places the task of album a is: entries of the queue, threads
\* owning it as `task`, threads owning it as `result`.
Occurrences(a) ==
    Cardinality({ i \in 1..Len(tasks) : tasks[i].album_id = a })
    + Cardinality({ w \in 1..MaxCpus : held[w].album_id = a })
    + Cardinality({ w \in 1..MaxCpus : result[w].album_id = a })

\* Threads owning the intermediate path of album a, or a process handle of it.
PathHolders(a) ==
    { w \in 1..MaxCpus : held[w].path = get_tmp_fname(a) \/ result[w].path = get_tmp_fname(a) }
HandleHolders(a) ==
    { w \in 1..MaxCpus : \/ held[w].album_id = a /\ held[w].child /= "none"
                         \/ result[w].album_id = a /\ result[w].child /= "none" }

DoneCount == Cardinality({ a \in AlbumIds : outcome[a] = "Done" })
SkippedCount == Cardinality({ a \in AlbumIds : outcome[a] = "Skipped" })

\* C1: when generate_thumbnails returns, the queue is empty, no drain thread
\* owns a task and every task the planner emitted ended as Done or Skipped,
\* for every number of threads, task list and interleaving.
C1_ReturnMeansAllTerminal ==
    mainPc = "returned" =>
        /\ tasks = << >>
        /\ \A w \in Workers : held[w] = NoTask /\ result[w] = NoTask /\ wpc[w] = "exited"
        /\ \A a \in Planned : outcome[a] \in {"Done", "Skipped"}

\* A run with two threads and two tasks has returned, after one thread saw an
\* empty queue while the other still owned a task.
C1_Witness ==
    /\ mainPc = "returned"
    /\ num_cpus >= 2
    /\ Len(pending_tasks) >= 2
    /\ early_exit
    /\ \E a \in AlbumIds : outcome[a] = "Done"

\* C2: every task that has not ended is in exactly one place, the queue or one
\* drain thread, and no intermediate path or process handle is owned by two
\* threads at once.
C2_ExclusiveOwnership ==
    \A a \in AlbumIds :
        /\ Occurrences(a) <= 1
        /\ (mainPc = "scope" /\ a \in Planned /\ outcome[a] = "none") => Occurrences(a) = 1
        /\ outcome[a] /= "none" => Occurrences(a) = 0
        /\ Cardinality(PathHolders(a)) <= 1
        /\ Cardinality(HandleHolders(a)) <= 1
        /\ \A w \in PathHolders(a) : \A i \in 1..Len(tasks) : tasks[i].path /= get_tmp_fname(a)

\* Two threads are inside advance at once, each owning a task with a process handle.
C2_Witness ==
    \E w \in Workers : \E v \in Workers :
        /\ w /= v
        /\ wpc[w] = "advance" /\ wpc[v] = "advance"
        /\ held[w].child /= "none" /\ held[v].child /= "none"

\* C3 as stated: when the run completes, files_processed is the number of
\* tasks that ended as Done, that is files_to_process minus the skipped ones.
C3_ProcessedCountsDoneOnly ==
    mainPc = "returned" =>
        /\ status.files_processed = DoneCount
        /\ status.files_processed = status.files_to_process - SkippedCount

\* C3 amended: when the run completes, files_processed is the number of tasks
\* that ended as Done or Skipped, and it equals files_to_process.
C3_ProcessedCountsEveryTerminal ==
    mainPc = "returned" =>
        /\ status.files_processed = DoneCount + SkippedCount
        /\ status.files_processed = status.files_to_process

\* A run with two threads has returned with one task Done and one Skipped.
C3_Witness ==
    /\ mainPc = "returned"
    /\ num_cpus >= 2
    /\ DoneCount >= 1
    /\ SkippedCount >= 1

\* The `convert` process of album a has exited with a non-zero status.
ResizeFailed(a) == convert[a] \in {"exit_fail", "reaped_fail"}

\* The task of album a is in the given state, wherever it is.
InState(a, st) ==
    \/ \E i \in 1..Len(tasks) : tasks[i].album_id = a /\ tasks[i].state = st
    \/ \E w \in 1..MaxCpus : held[w].album_id = a /\ held[w].state = st
    \/ \E w \in 1..MaxCpus : result[w].album_id = a /\ result[w].state = st

\* C4: a task whose resize process exited with a non-zero status never enters
\* Compressing (no encoder is spawned for it), never ends as Done, and the run
\* does not return.
C4_FailedResizeAborts ==
    \A a \in AlbumIds :
        ResizeFailed(a) =>
            /\ guetzli[a] = "none"
            /\ ~InState(a, "Compressing")
            /\ outcome[a] /= "Done"

\* C5: once a call of advance has returned an error, no drain thread pops a
\* task any more, files_processed is not incremented again and the run does
\* not return.
C5_AbortOnFirstError ==
    [][ (\E a \in AlbumIds : outcome[a] = "Error") =>
            /\ \A w \in Workers : held'[w] \in {held[w], NoTask}
            /\ status'.files_processed = status.files_processed
            /\ mainPc' /= "returned" ]_vars

\* C6: for a track list in which no album has a stored thumbnail, the planner
\* emits exactly one Pending task per album of the list, album 0 included, and
\* the task names the file of the album's first track.
C6_OneTaskPerAlbum ==
    (PlanningDone /\ thumbnails = {}) =>
        /\ \A a \in AlbumsOf(tracks) :
              /\ Cardinality({ i \in 1..Len(pending_tasks) : pending_tasks[i].album_id = a }) = 1
              /\ PendingTask(a, get_filename(FirstTrack(a))) \in Range(pending_tasks)
        /\ Planned \subseteq AlbumsOf(tracks)

\* C7: for every task that ended as Done the store holds the thumbnail of its album.
C7_DoneIsStored ==
    \A a \in AlbumIds : outcome[a] = "Done" => a \in thumbnails

\* C8: the planner emits a task for an album exactly when the store was asked
\* about that album and reported no thumbnail; files_to_process counts the
\* emitted tasks, and the queue the drain threads start from holds as many tasks.
C8_TaskIffNoThumbnail ==
    /\ \A a \in AlbumIds :
          (\E t \in Range(pending_tasks) : t.album_id = a /\ t.state = "Pending")
              <=> (a \in checked /\ a \notin thumbnails)
    /\ status.files_to_process = Len(pending_tasks)
    /\ mainPc = "spawn" => (tasks = pending_tasks /\ Len(tasks) = status.files_to_process)

\* Planning has ended with two tasks in the queue, and an album that has a
\* thumbnail was looked up and got no task.
C8_Witness ==
    /\ mainPc = "spawn"
    /\ Len(tasks) >= 2
    /\ \E a \in checked : a \in thumbnails

\* The state of the task of album a: how it ended, or the state it is in.
StateOf(a) ==
    IF outcome[a] /= "none" THEN outcome[a]
    ELSE IF InState(a, "Pending") THEN "Pending"
    ELSE IF InState(a, "Resizing") THEN "Resizing"
    ELSE IF InState(a, "Compressing") THEN "Compressing"
    ELSE "Absent"

\* The transitions one call of advance may make.
ForwardSteps ==
    { <<"Pending", "Resizing">>, <<"Pending", "Skipped">>,
      <<"Resizing", "Compressing">>, <<"Compressing", "Done">> }
    \cup ({"Pending", "Resizing", "Compressing"} \X {"Error", "Panicked"})

\* C9: while the drain threads run, every call of advance moves its task by
\* exactly one transition forward (Pending to Resizing or Skipped, Resizing to
\* Compressing, Compressing to Done, or to a failure), and nothing else
\* changes the state of a task, whichever thread makes the call.
C9_StrictlyForward ==
    [][ mainPc = "scope" =>
          \A a \in AlbumIds :
             IF advances'[a] /= advances[a]
             THEN /\ advances'[a] = advances[a] + 1
                  /\ <<StateOf(a), StateOf(a)'>> \in ForwardSteps
             ELSE StateOf(a)' = StateOf(a) ]_vars

\* A task has ended as Done after three calls of advance, the last of them by
\* a thread other than the one that had pushed the task.
C9_Witness ==
    \E w \in Workers :
        /\ wpc[w] \in {"lock_put", "put"}
        /\ took[w].pushed_by \notin {0, w}
        /\ took[w].album_id \in AlbumIds
        /\ outcome[took[w].album_id] = "Done"
        /\ advances[took[w].album_id] = 3

\* C10: a task ends as Done on exactly its third call of advance, a task
\* without a cover ends as Skipped on its first call with no process spawned
\* and no intermediate file, and no task is advanced more than three times.
C10_ThreeCalls ==
    \A a \in AlbumIds :
        /\ advances[a] <= 3
        /\ outcome[a] = "Done" => advances[a] = 3
        /\ (advances[a] = 3 /\ outcome[a] \notin {"Error", "Panicked"}) => outcome[a] = "Done"
        /\ (advances[a] \in 1..2 /\ outcome[a] \notin {"Error", "Panicked", "Skipped"})
              => (outcome[a] = "none" /\ Occurrences(a) = 1)
        /\ outcome[a] = "Skipped" =>
              /\ advances[a] = 1
              /\ convert[a] = "none"
              /\ guetzli[a] = "none"
              /\ ~file[get_tmp_fname(a)]

\* One task has ended as Done and another as Skipped.
C10_Witness ==
    \E a \in AlbumIds : \E b \in AlbumIds :
        /\ outcome[a] = "Done" /\ advances[a] = 3
        /\ outcome[b] = "Skipped" /\ advances[b] = 1

\* C11: the intermediate file of a task that ended as Done does not exist any
\* more, and no intermediate file exists for a task that is still Pending or
\* that has ended, however it ended.
C11_IntermediateFileCleanedUp ==
    \A a \in AlbumIds :
        /\ outcome[a] = "Done" => ~file[get_tmp_fname(a)]
        /\ StateOf(a) = "Pending" => ~file[get_tmp_fname(a)]
        /\ outcome[a] /= "none" => ~file[get_tmp_fname(a)]

\* C12: no drain thread holds the mutex while it is inside advance: the mutex
\* is free, or held by a thread that is at its pop or at its put.
C12_NoLockDuringAdvance ==
    /\ \A w \in Workers : wpc[w] = "advance" => mutex /= w
    /\ mutex /= 0 => wpc[mutex] \in {"pop", "put"}

\* A thread is inside advance, blocked in wait() on a running `convert`, while
\* another thread holds the mutex.
C12_Witness ==
    \E w \in Workers : \E v \in Workers :
        /\ w /= v
        /\ wpc[w] = "advance"
        /\ held[w].state = "Resizing"
        /\ convert[held[w].album_id] = "running"
        /\ mutex = v

\* Drain thread w makes its call put(None) in this step.
PutsNone(w) ==
    /\ wpc[w] = "put"
    /\ result[w] = NoTask
    /\ wpc'[w] /= "put"

\* C13: files_processed never decreases; it grows by exactly one in exactly
\* the steps in which a drain thread puts the None of a task that has ended,
\* at most once per such task; the snapshot with the new value is sent in the
\* same step, so that the last snapshot sent carries the value of
\* files_processed, and when the run returns it carries the final one.
C13_ProcessedCountedAndPublished ==
    /\ [](status.files_processed <= DoneCount + SkippedCount)
    /\ []((observer = "alive" /\ sent /= << >>) =>
              sent[Len(sent)].files_processed = status.files_processed)
    /\ [](mainPc = "returned" =>
              /\ sent[Len(sent)].files_processed = status.files_processed
              /\ status.files_processed = DoneCount + SkippedCount)
    /\ [][ /\ status'.files_processed \in
                 {status.files_processed, status.files_processed + 1}
           /\ (status'.files_processed = status.files_processed + 1)
                 <=> (\E w \in Workers : PutsNone(w))
           /\ (status'.files_processed /= status.files_processed /\ observer' = "alive")
                 => sent' = Append(sent, status') ]_vars

\* The run has returned after two tasks ended; the snapshots of the drain
\* threads carried the counts 1 and 2.
C13_Witness ==
    /\ mainPc = "returned"
    /\ status.files_processed = 2
    /\ Len(sent) >= 2
    /\ sent[Len(sent)].files_processed = 2
    /\ sent[Len(sent) - 1].files_processed = 1

\* A child process that was spawned and has not been waited for.
Unwaited(p) == p \in {"running", "blocked", "exit_ok", "exit_fail"}

\* C14: a process that has not been waited for is owned by the task of its
\* album (`convert` by the task in Resizing, `guetzli` by the task in
\* Compressing), so no handle is dropped before its wait, on any path; the
\* encoder is spawned only after `convert` was waited for, and a task never has
\* two processes that are not waited for.
C14_HandlesWaitedBeforeRelease ==
    \A a \in AlbumIds :
        /\ Unwaited(convert[a]) => InState(a, "Resizing")
        /\ Unwaited(guetzli[a]) => InState(a, "Compressing")
        /\ guetzli[a] /= "none" => convert[a] \in {"reaped_ok", "reaped_fail"}
        /\ ~(Unwaited(convert[a]) /\ Unwaited(guetzli[a]))

\* C15: a second run of the planner over the same index, after a first call
\* of generate_thumbnails that ended before or after its pipeline ran, yields
\* the pending tasks of the first run: same albums, same files, same order.
C15_PlannerIdempotent ==
    (first_plan.ran /\ PlanningDone) => pending_tasks = first_plan.tasks

\* The planner has run a second time and emitted two tasks, after a first
\* call whose pipeline brought a task to Done.
C15_Witness ==
    /\ first_plan.ran
    /\ mainPc = "spawn"
    /\ Len(pending_tasks) >= 2
    /\ \E t \in Range(pending_tasks) : outcome[t.album_id] = "Done"

\* The planner has run a second time after a first call that ended with no
\* task brought to its end.
C15_WitnessNoCompletion ==
    /\ first_plan.ran
    /\ mainPc = "spawn"
    /\ Len(pending_tasks) >= 1
    /\ \A a \in AlbumIds : outcome[a] = "none"

\* The tracks A00 and B00 of the test, with small numbers for the letters.
TrackA00 == << 0, 0, 0 >>
TrackB00 == << 1, 0, 0 >>

\* C16: shuffle does not panic; the order it computes is a permutation of the
\* tracks; and when it returns for two tracks of artist A and one of artist B,
\* the slice reads A00, B00, A00, for every seed.
C16_ShuffleInterleaves ==
    /\ sh_pc /= "panicked"
    /\ sh_pc \in {"apply", "returned"} =>
          /\ Len(sh_result) = Len(sh_tracks)
          /\ Range(sh_result) = 0..(Len(sh_tracks) - 1)
    /\ (sh_pc = "returned" /\ Len(sh_tracks) = 3 /\ Range(sh_tracks) = {TrackA00, TrackB00}
           /\ Cardinality({ i \in 1..3 : sh_tracks[i] = TrackA00 }) = 2)
          => sh_tracks = << TrackA00, TrackB00, TrackA00 >>

\* shuffle has panicked on the slice A00, A00, B00 of the test.
C16_PanicOnTestInput ==
    /\ sh_pc = "panicked"
    /\ sh_tracks = << TrackA00, TrackA00, TrackB00 >>

\* C18: the wait for guetzli followed by the read of its stdout never leaves a
\* drain thread and guetzli blocked on each other: no thread is inside the
\* wait() of the Compressing arm while guetzli is blocked writing to the pipe
\* that only this thread would read, whatever the size of the output.
C18_WaitThenReadCompletes ==
    \A w \in Workers :
        ~ /\ wpc[w] = "advance"
          /\ held[w].state = "Compressing"
          /\ guetzli[held[w].album_id] = "blocked"

\* The run has left what C17 assumes: a database or I/O error or a panic, a
\* dropped receiver, or a guetzli that cannot exit because it is blocked in
\* its write (C18).
OutsideAssumptions ==
    \/ mainPc \in {"failed", "panicked", "aborted"}
    \/ observer = "dropped"
    \/ \E a \in AlbumIds : outcome[a] \in {"Error", "Panicked"}
    \/ \E a \in AlbumIds : guetzli[a] = "blocked"
    \/ \E w \in 1..MaxCpus : wpc[w] = "panicked"

\* C17: with threads that are scheduled fairly and processes that exit, a run
\* without an error and with a receiving observer comes to the point where
\* every task has ended as Done or Skipped, every drain thread has left its
\* loop and generate_thumbnails has returned.
C17_Termination ==
    <>( \/ OutsideAssumptions
        \/ /\ mainPc = "returned"
           /\ \A w \in Workers : wpc[w] = "exited"
           /\ \A a \in Planned : outcome[a] \in {"Done", "Skipped"} )

\* A run with two drain threads has returned with two tasks Done.
C17_Witness ==
    /\ mainPc = "returned"
    /\ num_cpus = 2
    /\ DoneCount = 2
    /\ ~OutsideAssumptions

\* Albums whose task is in Resizing or Compressing state, in the queue or
\* owned by a drain thread; child processes that exist (spawned and not waited
\* for); intermediate files that exist.
InFlight == { a \in AlbumIds : InState(a, "Resizing") \/ InState(a, "Compressing") }
Processes == { << "convert", a >> : a \in { b \in AlbumIds : Unwaited(convert[b]) } }
             \cup { << "guetzli", a >> : a \in { b \in AlbumIds : Unwaited(guetzli[b]) } }
Files == { a \in AlbumIds : file[get_tmp_fname(a)] }

\* C19: at all times at most num_cpus tasks are in Resizing or Compressing
\* state, and at most num_cpus child processes and at most num_cpus
\* intermediate files exist, however many tasks are pending.
C19_InFlightAtMostWorkers ==
    /\ Cardinality(InFlight) <= num_cpus
    /\ Cardinality(Processes) <= num_cpus
    /\ Cardinality(Files) <= num_cpus

\* One drain thread, two tasks: the task that is under way lies in the queue
\* on top of the pending one, its process still running.
C19_Witness ==
    /\ num_cpus = 1
    /\ Len(tasks) = 2
    /\ tasks[1].state = "Pending"
    /\ tasks[2].state \in {"Resizing", "Compressing"}
    /\ Cardinality(Processes) = 1

\* The snapshots of the GeneratingThumbnails stage, in the order they were sent.
GenSnapshots == SelectSeq(sent, LAMBDA st : st.stage = "GeneratingThumbnails")

\* C20: the snapshots of the GeneratingThumbnails stage carry the counts
\* 0, 1, 2, .. in this order, each once and none left out, up to the count the
\* status holds; and while the drain threads run, the status changes and a
\* snapshot is sent only in the put of the thread that holds the mutex, the
\* increment and the send of the new value in one and the same step.
C20_SnapshotsInOrder ==
    /\ [](\A i \in 1..Len(GenSnapshots) : GenSnapshots[i].files_processed = i - 1)
    /\ []((mainPc \in {"scope", "returned"} /\ observer = "alive") =>
              Len(GenSnapshots) = status.files_processed + 1)
    /\ [][ (mainPc = "scope" /\ (status' /= status \/ sent' /= sent)) =>
              /\ mutex /= 0
              /\ wpc[mutex] = "put"
              /\ wpc'[mutex] /= "put"
              /\ status'.files_processed = status.files_processed + 1
              /\ (sent' = Append(sent, status') \/ (sent' = sent /\ observer' = "dropped")) ]_vars

\* Two drain threads are running and the observer has received the counts 0, 1 and 2.
C20_Witness ==
    /\ mainPc = "scope"
    /\ num_cpus = 2
    /\ Len(GenSnapshots) = 3
    /\ GenSnapshots[3].files_processed = 2

\* C21: every snapshot sent carries files_processed <= files_to_process; from
\* the moment the drain threads are spawned, stage and files_to_process stay
\* as they are and only files_processed changes; and files_to_process changes
\* only in the planner loop, before any drain thread exists.
C21_OnlyProcessedChangesInWorkerPhase ==
    /\ [](\A i \in 1..Len(sent) : sent[i].files_processed <= sent[i].files_to_process)
    /\ [](status.files_processed <= status.files_to_process)
    /\ [](mainPc \in {"scope", "returned"} =>
             /\ status.stage = "GeneratingThumbnails"
             /\ status.files_to_process = Len(pending_tasks))
    /\ [][ /\ mainPc = "scope" =>
                /\ status'.stage = status.stage
                /\ status'.files_to_process = status.files_to_process
           /\ status'.files_to_process /= status.files_to_process =>
                /\ mainPc = "plan"
                /\ \A w \in 1..MaxCpus : wpc[w] = "unspawned"
                /\ status'.files_processed = status.files_processed ]_vars

\* Two tasks were planned and the drain threads have sent the snapshot of the
\* first one that ended: 1 of 2.
C21_Witness ==
    /\ mainPc = "scope"
    /\ sent /= << >>
    /\ sent[Len(sent)].stage = "GeneratingThumbnails"
    /\ sent[Len(sent)].files_processed = 1
    /\ sent[Len(sent)].files_to_process = 2

\* No Started event is among the given events.
NoStartedIn(events) == \A i \in 1..Len(events) : events[i].kind /= "Started"

\* The rows after a step are the rows before it with one more row for the event.
OneRowInserted(before, after, event) ==
    /\ Len(after) = Len(before) + 1
    /\ SubSeq(after, 1, Len(before)) = before
    /\ after[Len(after)].queue_id = event.queue_id
    /\ after[Len(after)].track_id = event.track_id
    /\ after[Len(after)].completed = NotCompleted
    /\ \A i \in 1..Len(before) : before[i].id /= after[Len(after)].id

\* The rows after a step are the rows before it with the newest row, and no
\* other, completed by the event.
NewestRowCompleted(before, after, event) ==
    /\ Len(after) = Len(before)
    /\ Len(before) > 0
    /\ after[Len(after)] = [before[Len(before)] EXCEPT
                               !.completed = [queue_id |-> event.queue_id,
                                              track_id |-> event.track_id]]
    /\ \A i \in 1..(Len(before) - 1) : after[i] = before[i]

C22_WitnessPanic ==
    /\ h_pc = "panicked"
    /\ Len(h_received) = 1
    /\ h_received[1].kind = "Completed"
    /\ h_listens = OldListens(1)

====
